---- MODULE Spec2Model ----
(***************************************************************************)
(* A model of BatchModal (batch_jobs_utils.py): a mixin for a modal        *)
(* operator of the host application.  The host constructs one operator     *)
(* instance per run, starts it through invoke (from the UI) or execute     *)
(* (from a script), and then hands it events through modal until modal     *)
(* returns something other than RUNNING_MODAL or raises.                   *)
(*                                                                         *)
(* Numbers that the code keeps as floats (_progress, _estimated_time) are  *)
(* kept as exact fractions <<numerator, denominator>>.  None is 0 for the  *)
(* timer and the draw handler, 0 for the overlay area (areas are indexed   *)
(* from 1) and "None" for the space type.                                  *)
(*                                                                         *)
(* A call that raises leaves in ret the name of the exception; the host    *)
(* then drops the operator (pc = "done") without calling it again, and     *)
(* whatever the operator had registered stays registered.                  *)
(***************************************************************************)
EXTENDS Integers, Sequences, FiniteSets, TLC

\* ---------------------------------------------------------------- bounds
MaxItems == 3      \* longest item list warmup supplies
MaxTime == 2       \* the clock runs from 0 to MaxTime
MaxOtherEvents == 1 \* most events other than TIMER, RET and ESC in one run

\* ------------------------------------------------------ program constants
overlay_area_type == "VIEW_3D"

\* The host: the screens the operator may be started on, the handle of the
\* timer execute adds, the handle of a timer something else added, and the
\* handle of the draw handler execute adds.
Screens == {<<>>, <<"IMAGE_EDITOR">>, <<"VIEW_3D">>,
            <<"IMAGE_EDITOR", "VIEW_3D">>, <<"VIEW_3D", "VIEW_3D">>}
OwnTimer == 1
OtherTimer == 2
OwnHandler == 1

VARIABLES
    \* the operator's fields
    data_to_empty, progress_message, use_props_dialog,
    _timer, _total_items, _progress, _start_time, _estimated_time,
    _invoked_from_ui, _overlay_area, _overlay_space_type, _overlay_draw_handler,
    \* the host
    areas,           \* context.screen.areas: a sequence of area types
    timers,          \* the window manager's live event timers
    draw_handlers,   \* the draw handlers registered with the space type
    tagged,          \* whether the overlay area is tagged for a redraw
    drawn,           \* what the last draw_overlay call drew (<<>> before the first)
    now,             \* the clock, in steps of SecondsPerTick seconds
    pc,              \* "new", "dialog", "modal" or "done"
    lists,           \* the heap's list objects: "src" is the list warmup (or the
                     \* class attribute) supplies, "own" the copy execute makes
    \* history
    called,          \* the method the host called last ("none" before the first)
    ret,             \* what that call returned or raised
    original,        \* the items of the supplied list when execute read it
    calls,           \* the hook and host calls made so far, in order
    event,           \* the event modal handled last (<<>> before the first)
    n_timer,         \* the number of TIMER events handed to modal so far
    n_other          \* the number of other events handed to modal so far

vars == <<data_to_empty, progress_message, use_props_dialog,
          _timer, _total_items, _progress, _start_time, _estimated_time,
          _invoked_from_ui, _overlay_area, _overlay_space_type, _overlay_draw_handler,
          areas, timers, draw_handlers, tagged, drawn, now, pc,
          lists, called, ret, original, calls, event, n_timer, n_other>>

events == <<event, n_timer, n_other>>

fields == <<data_to_empty, progress_message,
            _timer, _total_items, _progress, _start_time, _estimated_time,
            _invoked_from_ui, _overlay_area, _overlay_space_type, _overlay_draw_handler>>

host == <<timers, draw_handlers, tagged, drawn>>

\* ---------------------------------------------------------------- helpers
Call(op, arg) == [op |-> op, arg |-> arg]

Event(type, timer) == [type |-> type, timer |-> timer]

\* The first index of an area of the given type, 0 when there is none
\* (next() over the generator then raises StopIteration).
FirstArea(as, type) ==
    IF \E i \in 1..Len(as) : as[i] = type
    THEN CHOOSE i \in 1..Len(as) : as[i] = type /\ \A j \in 1..(i - 1) : as[j] # type
    ELSE 0

\* type(area.spaces[0]): the space type of an area.
SpaceTypeOf(areaType) ==
    IF areaType = "VIEW_3D" THEN "SpaceView3D" ELSE "SpaceImageEditor"

AreaWidth(i) == 200 * i
AreaHeight(i) == 300

\* time.time(): the clock in seconds; one step of the clock is SecondsPerTick
\* seconds, long enough for estimates of hours, minutes and seconds.
SecondsPerTick == 1850
Time == now * SecondsPerTick

\* The items are opaque to the operator: two distinct ones tell an order.
ItemValues == {1, 2}

\* The lists warmup may supply: 1, 2, 1, 2, ... up to MaxItems items, and two
\* short ones with the order turned and with an item twice.
ItemLists ==
    {[i \in 1..n |-> IF i % 2 = 1 THEN 1 ELSE 2] : n \in 0..MaxItems}
        \cup {<<2, 1>>, <<1, 1>>}

\* The list data_to_empty refers to.
Queue == lists[data_to_empty]

\* A slip: no copy is made, data_to_empty keeps referring to the same list.
NoCopy(ls, ref) == [ref |-> ref, lists |-> ls]

\* data_to_empty[:] : a new list object with the same items.
SliceCopy(ls, ref) == [ref |-> "own", lists |-> [ls EXCEPT !.own = ls[ref]]]

\* ------------------------------------------------------------------- Init
Init ==
    /\ data_to_empty = "src"
    /\ lists = [src |-> <<>>, own |-> <<>>]
    /\ progress_message = ""
    /\ use_props_dialog \in BOOLEAN
    /\ _timer = 0
    /\ _total_items = 0
    /\ _progress = <<0, 1>>
    /\ _start_time = 0
    /\ _estimated_time = <<0, 1>>
    /\ _invoked_from_ui = FALSE
    /\ _overlay_area = 0
    /\ _overlay_space_type = "None"
    /\ _overlay_draw_handler = 0
    /\ areas \in Screens
    /\ timers \in {{}, {OtherTimer}}
    /\ draw_handlers = {}
    /\ tagged = FALSE
    /\ drawn = <<>>
    /\ now = 0
    /\ pc = "new"
    /\ called = "none"
    /\ ret = "none"
    /\ original = <<>>
    /\ calls = <<>>
    /\ event = <<>>
    /\ n_timer = 0
    /\ n_other = 0

\* ------------------------------------------------------------- operations

\* warmup: the hook a subclass fills in.  It sets the progress message and
\* leaves the list of items in data_to_empty.
warmup(list) ==
    /\ progress_message' = "Warming up"
    /\ original' = list

\* execute, with self._invoked_from_ui and self._overlay_area as they are
\* when it is called (invoke sets them right before calling it).
execute(invoked, area) ==
    \E list \in ItemLists :
        LET supplied == [lists EXCEPT !.src = list]
            copy == SliceCopy(supplied, "src")
        IN  /\ warmup(list)
            /\ data_to_empty' = copy.ref
            /\ lists' = copy.lists
            /\ _total_items' = Len(copy.lists[copy.ref])
            /\ IF invoked
               THEN /\ _overlay_space_type' = SpaceTypeOf(areas[area])
                    /\ _overlay_draw_handler' = OwnHandler
                    /\ draw_handlers' = draw_handlers \cup {OwnHandler}
               ELSE UNCHANGED <<_overlay_space_type, _overlay_draw_handler, draw_handlers>>
            /\ _timer' = OwnTimer
            /\ timers' = timers \cup {OwnTimer}
            /\ pc' = "modal"
            /\ _start_time' = Time
            /\ ret' = "RUNNING_MODAL"
            /\ calls' = calls
                   \o <<Call("warmup", 0)>>
                   \o (IF invoked THEN <<Call("draw_handler_add", OwnHandler)>> ELSE <<>>)
                   \o <<Call("event_timer_add", OwnTimer), Call("modal_handler_add", 0)>>
            /\ UNCHANGED <<_progress, _estimated_time, use_props_dialog, areas,
                           tagged, drawn, now, events>>

\* A slip: invoke starts the run whether or not a properties dialog is asked for.
InvokeSkipsDialog ==
    /\ pc = "new"
    /\ called' = "invoke"
    /\ _invoked_from_ui' = TRUE
    /\ LET area == FirstArea(areas, overlay_area_type)
       IN  IF area = 0
           THEN /\ ret' = "StopIteration"
                /\ pc' = "done"
                /\ UNCHANGED <<data_to_empty, progress_message, use_props_dialog, _timer,
                               _total_items, _progress, _start_time, _estimated_time,
                               _overlay_area, _overlay_space_type, _overlay_draw_handler,
                               areas, timers, draw_handlers, tagged, drawn, now,
                               lists, original, calls, events>>
           ELSE /\ _overlay_area' = area
                /\ execute(TRUE, area)

\* The host starts the operator from the UI.
Invoke ==
    /\ pc = "new"
    /\ called' = "invoke"
    /\ _invoked_from_ui' = TRUE
    /\ LET area == FirstArea(areas, overlay_area_type)
       IN  IF area = 0
           THEN /\ ret' = "StopIteration"
                /\ pc' = "done"
                /\ UNCHANGED <<data_to_empty, progress_message, use_props_dialog, _timer,
                               _total_items, _progress, _start_time, _estimated_time,
                               _overlay_area, _overlay_space_type, _overlay_draw_handler,
                               areas, timers, draw_handlers, tagged, drawn, now,
                               lists, original, calls, events>>
           ELSE /\ _overlay_area' = area
                /\ IF use_props_dialog
                   THEN /\ ret' = "PROPS_DIALOG"
                        /\ pc' = "dialog"
                        /\ calls' = Append(calls, Call("invoke_props_dialog", 0))
                        /\ UNCHANGED <<data_to_empty, progress_message, use_props_dialog,
                                       _timer, _total_items, _progress, _start_time,
                                       _estimated_time, _overlay_space_type,
                                       _overlay_draw_handler, areas, timers, draw_handlers,
                                       tagged, drawn, now, lists, original, events>>
                   ELSE execute(TRUE, area)

\* The host starts the operator from a script, or the user confirms the
\* properties dialog: execute is called with the fields as they are.
Execute ==
    /\ pc \in {"new", "dialog"}
    /\ called' = "execute"
    /\ execute(_invoked_from_ui, _overlay_area)
    /\ UNCHANGED <<_invoked_from_ui, _overlay_area>>

\* ------------------------------------------------------------------ modal

\* The host hands modal an event only while the modal handler is installed.
Receives == pc = "modal" /\ called' = "modal"

\* A slip: the last item of the list instead of the first.
HeadItemLast(q) == q[Len(q)]

\* The item modal passes to main_process: data_to_empty[0].
HeadItem(q) == q[1]

\* data_to_empty.pop(0)
PopFirst(q) == Tail(q)

\* processed_items / self._total_items
ProgressOf(processed, total) == <<processed, total>>

\* A slip: the average is taken over all items, not the processed ones.
EstimateOverTotal(elapsed, processed, total) == <<elapsed * (total - processed), total>>

\* (elapsed_time / processed_items) * (self._total_items - processed_items)
EstimateOf(elapsed, processed, total) == <<elapsed * (total - processed), processed>>

\* The three lines that end a run: the draw handler, if there is one, is
\* removed, then the timer.
RemoveCalls ==
    (IF _overlay_draw_handler # 0
     THEN <<Call("draw_handler_remove", _overlay_draw_handler)>> ELSE <<>>)
    \o <<Call("event_timer_remove", _timer)>>

\* A slip: the run ends with the timer left with the window manager.
EndRunKeepsTimer(hook, result, log) ==
    /\ calls' = log \o <<Call(hook, 0)>>
                   \o (IF _overlay_draw_handler # 0
                       THEN <<Call("draw_handler_remove", _overlay_draw_handler)>> ELSE <<>>)
    /\ draw_handlers' = (IF _overlay_draw_handler # 0
                         THEN draw_handlers \ {_overlay_draw_handler}
                         ELSE draw_handlers)
    /\ timers' = timers
    /\ ret' = result
    /\ pc' = "done"

\* A slip: the finalising hook is called after the handler and the timer are
\* removed.
EndRunHookLast(hook, result, log) ==
    /\ calls' = log \o RemoveCalls \o <<Call(hook, 0)>>
    /\ draw_handlers' = (IF _overlay_draw_handler # 0
                         THEN draw_handlers \ {_overlay_draw_handler}
                         ELSE draw_handlers)
    /\ timers' = timers \ {_timer}
    /\ ret' = result
    /\ pc' = "done"

EndRun(hook, result, log) ==
    /\ calls' = log \o <<Call(hook, 0)>> \o RemoveCalls
    /\ draw_handlers' = (IF _overlay_draw_handler # 0
                         THEN draw_handlers \ {_overlay_draw_handler}
                         ELSE draw_handlers)
    /\ timers' = timers \ {_timer}
    /\ ret' = result
    /\ pc' = "done"

\* A TIMER event, from whichever of the window manager's timers t.
ModalTimer(t) ==
    /\ Receives
    /\ t \in timers
    /\ event' = <<Event("TIMER", t)>>
    /\ n_timer' = n_timer + 1
    /\ UNCHANGED n_other
    /\ UNCHANGED <<data_to_empty, progress_message, use_props_dialog, _timer,
                   _total_items, _start_time, _invoked_from_ui, _overlay_area,
                   _overlay_space_type, _overlay_draw_handler, areas, drawn, now,
                   original>>
    /\ IF Queue = <<>>
       THEN \* self.data_to_empty[0] raises
            /\ ret' = "IndexError"
            /\ pc' = "done"
            /\ UNCHANGED <<lists, _progress, _estimated_time, calls,
                           timers, draw_handlers, tagged>>
       ELSE LET rest == PopFirst(Queue)
                processed == _total_items - Len(rest)
                log == Append(calls, Call("main_process", HeadItem(Queue)))
            IN  /\ lists' = [lists EXCEPT ![data_to_empty] = rest]
                /\ IF _total_items = 0
                   THEN \* processed_items / self._total_items divides by zero
                        /\ ret' = "ZeroDivisionError"
                        /\ pc' = "done"
                        /\ calls' = log
                        /\ UNCHANGED <<_progress, _estimated_time,
                                       timers, draw_handlers, tagged>>
                   ELSE /\ _progress' = ProgressOf(processed, _total_items)
                        /\ IF processed = 0
                           THEN \* elapsed_time / processed_items divides by zero
                                /\ ret' = "ZeroDivisionError"
                                /\ pc' = "done"
                                /\ calls' = log
                                /\ UNCHANGED <<_estimated_time, timers, draw_handlers, tagged>>
                           ELSE /\ _estimated_time' =
                                       EstimateOf(Time - _start_time, processed, _total_items)
                                /\ IF _overlay_area = 0
                                   THEN \* None has no tag_redraw
                                        /\ ret' = "AttributeError"
                                        /\ pc' = "done"
                                        /\ calls' = log
                                        /\ UNCHANGED <<timers, draw_handlers, tagged>>
                                   ELSE /\ tagged' = TRUE
                                        /\ IF Len(rest) < 1
                                           THEN EndRun("cleanup", "FINISHED", log)
                                           ELSE /\ calls' = log
                                                /\ ret' = "RUNNING_MODAL"
                                                /\ UNCHANGED <<timers, draw_handlers, pc>>

\* A slip: RET works the rest of the queue off before it concludes.
ModalRetDrain ==
    /\ Receives
    /\ event' = <<Event("RET", 0)>>
    /\ UNCHANGED <<n_timer, n_other>>
    /\ EndRun("cleanup", "FINISHED",
              calls \o [i \in 1..Len(Queue) |-> Call("main_process", Queue[i])])
    /\ lists' = [lists EXCEPT ![data_to_empty] = <<>>]
    /\ UNCHANGED <<fields, use_props_dialog, areas, tagged, drawn, now, original>>

ModalRet ==
    /\ Receives
    /\ event' = <<Event("RET", 0)>>
    /\ UNCHANGED <<n_timer, n_other>>
    /\ EndRun("cleanup", "FINISHED", calls)
    /\ UNCHANGED <<fields, use_props_dialog, areas, tagged, drawn, now, lists, original>>

\* A slip: ESC finalises the run instead of rolling it back.
ModalEscCleanup ==
    /\ Receives
    /\ event' = <<Event("ESC", 0)>>
    /\ UNCHANGED <<n_timer, n_other>>
    /\ EndRun("cleanup", "CANCELLED", calls)
    /\ UNCHANGED <<fields, use_props_dialog, areas, tagged, drawn, now, lists, original>>

ModalEsc ==
    /\ Receives
    /\ event' = <<Event("ESC", 0)>>
    /\ UNCHANGED <<n_timer, n_other>>
    /\ EndRun("undo_everything", "CANCELLED", calls)
    /\ UNCHANGED <<fields, use_props_dialog, areas, tagged, drawn, now, lists, original>>

\* Any other event: a mouse move, a key press, ...
OtherEventTypes == {"MOUSEMOVE", "SPACE"}

\* A slip: any event that does not end the run advances the queue.
ModalOtherPops(type) ==
    /\ Receives
    /\ n_other < MaxOtherEvents
    /\ event' = <<Event(type, 0)>>
    /\ n_other' = n_other + 1
    /\ ret' = "RUNNING_MODAL"
    /\ lists' = [lists EXCEPT ![data_to_empty] = IF @ = <<>> THEN @ ELSE Tail(@)]
    /\ UNCHANGED <<fields, use_props_dialog, areas, timers, draw_handlers, tagged,
                   drawn, now, pc, original, calls, n_timer>>

ModalOther(type) ==
    /\ Receives
    /\ n_other < MaxOtherEvents
    /\ event' = <<Event(type, 0)>>
    /\ n_other' = n_other + 1
    /\ UNCHANGED n_timer
    /\ ret' = "RUNNING_MODAL"
    /\ UNCHANGED <<fields, use_props_dialog, areas, timers, draw_handlers, tagged,
                   drawn, now, pc, lists, original, calls>>

\* The host ends the operator itself (the dialog is dismissed, the window is
\* closed, a file is loaded) and calls cancel.
Cancel ==
    /\ pc \in {"dialog", "modal"}
    /\ IF _overlay_draw_handler # 0
       THEN /\ draw_handlers' = draw_handlers \ {_overlay_draw_handler}
            /\ calls' = Append(calls, Call("draw_handler_remove", _overlay_draw_handler))
       ELSE UNCHANGED <<draw_handlers, calls>>
    /\ called' = "cancel"
    /\ ret' = "None"
    /\ pc' = "done"
    /\ UNCHANGED <<fields, use_props_dialog, areas, timers, tagged, drawn, now,
                   lists, original, events>>

\* Time passes.
Tick ==
    /\ now < MaxTime
    /\ now' = now + 1
    /\ UNCHANGED <<fields, use_props_dialog, areas, timers, draw_handlers, tagged,
                   drawn, pc, lists, called, ret, original, calls, events>>

\* ----------------------------------------------------------- draw_overlay
draw_overlay_text == TRUE

\* divmod(x, k) of a fraction x >= 0: the whole quotient and the remainder.
DivMod(x, k) ==
    LET q == x[1] \div (x[2] * k)
    IN  [quot |-> q, rem |-> <<x[1] - q * k * x[2], x[2]>>]

\* int(x) of a fraction x >= 0.
IntOf(x) == x[1] \div x[2]

\* What draw_overlay draws: the loading bar's right edge and the numbers of
\* the second text line (the image is left to its default, None).
Overlay ==
    LET ms == DivMod(_estimated_time, 60)
        hm == DivMod(<<ms.quot, 1>>, 60)
    IN  [bar_left |-> 0,
         bar_right |-> <<AreaWidth(_overlay_area) * _progress[1], _progress[2]>>,
         text |-> draw_overlay_text,
         percent |-> IntOf(<<_progress[1] * 100, _progress[2]>>),
         h |-> hm.quot,
         m |-> IntOf(hm.rem),
         s |-> IntOf(ms.rem)]

\* The host redraws the region and calls the registered draw handler.
DrawOverlay ==
    /\ _overlay_draw_handler # 0
    /\ _overlay_draw_handler \in draw_handlers
    /\ _overlay_area # 0
    /\ drawn' = <<Overlay>>
    /\ tagged' = FALSE
    /\ UNCHANGED <<fields, use_props_dialog, areas, timers, draw_handlers, now, pc,
                   lists, called, ret, original, calls, events>>

\* ------------------------------------------------------------------- Next
Next ==
    \/ Invoke
    \/ Execute
    \/ \E t \in {OwnTimer, OtherTimer} : ModalTimer(t)
    \/ ModalRet
    \/ ModalEsc
    \/ \E type \in OtherEventTypes : ModalOther(type)
    \/ Cancel
    \/ DrawOverlay
    \/ Tick

Spec == Init /\ [][Next]_vars

\* ----------------------------------------------------------------- claims

\* The items passed to main_process so far, in order.
MainArgs == [i \in 1..Len(SelectSeq(calls, LAMBDA c : c.op = "main_process")) |->
                SelectSeq(calls, LAMBDA c : c.op = "main_process")[i].arg]

\* How often op was called, and where in the order of calls.
Count(op) == Len(SelectSeq(calls, LAMBDA c : c.op = op))
Places(op) == {i \in 1..Len(calls) : calls[i].op = op}

\* modal was the last method called, and the event it handled was of a type in T.
Handled(T) == called = "modal" /\ event # <<>> /\ event[1].type \in T

\* C1: in a run with items, after k TIMER events main_process has been called
\* exactly k times, with the first k items of the original list in their order,
\* and the queue holds exactly the remaining items: one item per TIMER event,
\* always the head, each at most once.
C1_TimerTakesHead ==
    original # <<>> =>
        /\ Len(MainArgs) = n_timer
        /\ MainArgs \o Queue = original
        /\ Len(Queue) = Len(original) - n_timer

C1_Witness ==
    /\ Handled({"TIMER"})
    /\ pc = "modal"
    /\ original = <<2, 1>>
    /\ MainArgs = <<2>>
    /\ Queue = <<1>>

\* C3: after an ESC event modal has returned CANCELLED, undo_everything was
\* called once and was the last hook, cleanup was never called, no item was
\* processed beyond those the TIMER events took, and the run is over.
C3_EscCancels ==
    Handled({"ESC"}) =>
        /\ ret = "CANCELLED"
        /\ pc = "done"
        /\ Count("undo_everything") = 1
        /\ Count("cleanup") = 0
        /\ Count("main_process") = n_timer
        /\ MainArgs \o Queue = original
        /\ \A i \in Places("main_process") : \A j \in Places("undo_everything") : i < j

C3_Witness ==
    /\ Handled({"ESC"})
    /\ ret = "CANCELLED"
    /\ Len(Queue) = 2
    /\ n_timer = 1
    /\ calls[Len(calls) - 1].op \in {"undo_everything", "draw_handler_remove"}

\* C4: after a RET event modal has returned FINISHED, cleanup was called once,
\* undo_everything never, the items still in the queue were not passed to
\* main_process, and the run is over.
C4_RetConcludes ==
    Handled({"RET"}) =>
        /\ ret = "FINISHED"
        /\ pc = "done"
        /\ Count("cleanup") = 1
        /\ Count("undo_everything") = 0
        /\ Count("main_process") = n_timer
        /\ MainArgs \o Queue = original

C4_Witness ==
    /\ Handled({"RET"})
    /\ ret = "FINISHED"
    /\ Queue = <<2, 1>>
    /\ n_timer = 1
    /\ Count("cleanup") = 1

\* C5: a step in which modal handles an event that is none of TIMER, RET and
\* ESC returns RUNNING_MODAL and changes neither the fields (the queue,
\* _progress, _estimated_time among them), nor the timers, nor the draw
\* handlers, nor the calls made.
C5_OtherEventsChangeNothing ==
    [][n_other' # n_other =>
          /\ ret' = "RUNNING_MODAL"
          /\ pc' = pc
          /\ UNCHANGED <<fields, lists, timers, draw_handlers, tagged, calls>>]_vars

C5_Witness ==
    /\ Handled(OtherEventTypes)
    /\ n_timer = 1
    /\ Len(Queue) = 2
    /\ _progress = <<1, 3>>
    /\ ret = "RUNNING_MODAL"

\* C2: in a run started with N >= 1 items that has received TIMER events only,
\* modal returned RUNNING_MODAL on each of the first N - 1 of them and returns
\* FINISHED on the N-th, with every item processed and cleanup called.
C2_NthTimerFinishes ==
    (Handled({"TIMER"}) /\ original # <<>> /\ n_other = 0) =>
        IF n_timer < Len(original)
        THEN ret = "RUNNING_MODAL" /\ pc = "modal"
        ELSE /\ n_timer = Len(original)
             /\ ret = "FINISHED"
             /\ pc = "done"
             /\ MainArgs = original
             /\ Count("cleanup") = 1

\* C6: _total_items is the length of the list as warmup left it, and after a
\* TIMER event _progress is (_total_items - remaining) / _total_items, lies in
\* (0, 1], and is 1 exactly when the queue is empty.
C6_ProgressAfterTimer ==
    /\ pc \in {"modal", "done"} => _total_items = Len(original)
    /\ Handled({"TIMER"}) =>
          /\ _progress[2] > 0
          /\ _progress[1] * _total_items = (_total_items - Len(Queue)) * _progress[2]
          /\ 0 < _progress[1] /\ _progress[1] <= _progress[2]
          /\ (_progress[1] = _progress[2]) <=> (Queue = <<>>)

\* modal ended the run: it returned FINISHED or CANCELLED.
ModalEnded == called = "modal" /\ ret \in {"FINISHED", "CANCELLED"}

\* C7: when modal has ended the run, the timer execute added has been removed
\* once and is no longer with the window manager, and the draw handler, if
\* one was added, has been removed once and is no longer registered; while
\* the run goes on, neither has been removed.
C7_ResourcesRemovedOnce ==
    /\ ModalEnded =>
          /\ Count("event_timer_add") = 1
          /\ Count("event_timer_remove") = 1
          /\ _timer \notin timers
          /\ Count("draw_handler_remove") = Count("draw_handler_add")
          /\ Count("draw_handler_add") = (IF _overlay_draw_handler # 0 THEN 1 ELSE 0)
          /\ _overlay_draw_handler \notin draw_handlers
    /\ pc = "modal" =>
          /\ Count("event_timer_remove") = 0
          /\ Count("draw_handler_remove") = 0
          /\ _timer \in timers
          /\ _overlay_draw_handler # 0 => _overlay_draw_handler \in draw_handlers

C7_Witness ==
    /\ ModalEnded
    /\ Handled({"TIMER"})
    /\ Queue = <<>>
    /\ n_timer = 3
    /\ Count("draw_handler_remove") = 1
    /\ Count("event_timer_remove") = 1

\* C8: in a run modal has ended, exactly one of cleanup and undo_everything
\* was called, once, after every main_process call and before the draw
\* handler and the timer were removed; warmup was called once, before every
\* main_process call and before the timer was added.
C8_HookOrder ==
    ModalEnded =>
        /\ Count("cleanup") + Count("undo_everything") = 1
        /\ \A h \in Places("cleanup") \cup Places("undo_everything") :
              /\ \A i \in Places("main_process") : i < h
              /\ \A r \in Places("draw_handler_remove") \cup Places("event_timer_remove") :
                    h < r
        /\ Count("event_timer_remove") = 1
        /\ Count("warmup") = 1
        /\ \A w \in Places("warmup") :
              \A i \in Places("main_process") \cup Places("event_timer_add") : w < i

C8_Witness ==
    /\ ModalEnded
    /\ Count("main_process") = 2
    /\ Count("undo_everything") = 1
    /\ Count("draw_handler_remove") = 1
    /\ Count("warmup") = 1

\* C9: in a run whose list is empty after warmup, the first TIMER event makes
\* modal call cleanup and return FINISHED, with the timer and the draw handler
\* removed and main_process not called.
C9_EmptyRunFinishes ==
    (Handled({"TIMER"}) /\ original = <<>>) =>
        /\ ret = "FINISHED"
        /\ Count("cleanup") = 1
        /\ Count("main_process") = 0
        /\ _timer \notin timers
        /\ _overlay_draw_handler \notin draw_handlers

\* C10: the draw handler is registered exactly while a run started through
\* invoke is going on, and whenever it is registered _overlay_area is an area
\* of type overlay_area_type.
C10_HandlerWhileRunning ==
    /\ (OwnHandler \in draw_handlers) <=> (_invoked_from_ui /\ pc = "modal")
    /\ OwnHandler \in draw_handlers =>
          /\ _overlay_area \in 1..Len(areas)
          /\ areas[_overlay_area] = overlay_area_type

\* C11: in a run with items started by execute alone (no invoke), modal
\* answers a TIMER event as it does in a run started through invoke: it
\* raises nothing, returns RUNNING_MODAL while items remain, and on the
\* event that empties the queue calls cleanup, removes the timer and returns
\* FINISHED.
C11_ExecuteAloneRunsAlike ==
    (Handled({"TIMER"}) /\ ~_invoked_from_ui /\ original # <<>>) =>
        /\ ret \in {"RUNNING_MODAL", "FINISHED"}
        /\ IF Queue = <<>>
           THEN /\ ret = "FINISHED"
                /\ Count("cleanup") = 1
                /\ _timer \notin timers
           ELSE ret = "RUNNING_MODAL" /\ pc = "modal"
        /\ Count("draw_handler_add") = 0
        /\ Count("draw_handler_remove") = 0

\* C12: once the host has ended a running operator through cancel, neither
\* the draw handler nor the timer that execute registered is still registered.
C12_CancelReleasesAll ==
    (called = "cancel" /\ Count("event_timer_add") = 1) =>
        /\ OwnHandler \notin draw_handlers
        /\ OwnTimer \notin timers

\* Nothing of a run has been started: no warmup, no timer, no modal handler,
\* no draw handler.
NothingStarted ==
    /\ Count("warmup") = 0
    /\ Count("event_timer_add") = 0 /\ OwnTimer \notin timers
    /\ Count("modal_handler_add") = 0
    /\ Count("draw_handler_add") = 0 /\ OwnHandler \notin draw_handlers
    /\ _timer = 0 /\ _overlay_draw_handler = 0

\* The run has been started: warmup was called, the timer and the modal
\* handler were added, and the method returned RUNNING_MODAL.
RunStarted ==
    /\ ret = "RUNNING_MODAL"
    /\ pc = "modal"
    /\ Count("warmup") = 1
    /\ Count("event_timer_add") = 1 /\ OwnTimer \in timers
    /\ Count("modal_handler_add") = 1

\* C13 as stated: with use_props_dialog invoke returns the dialog's result
\* and starts nothing, the run starting only with the execute call that
\* follows; without use_props_dialog invoke returns RUNNING_MODAL with the run
\* started.
C13_InvokeAsStated ==
    /\ called = "invoke" =>
          IF use_props_dialog
          THEN ret = "PROPS_DIALOG" /\ pc = "dialog" /\ NothingStarted
          ELSE RunStarted
    /\ pc = "dialog" => NothingStarted
    /\ (called = "execute" /\ Count("invoke_props_dialog") = 1) => RunStarted

\* C13 amended: the above holds on a screen that has an area of type
\* overlay_area_type; on a screen that has none, invoke raises StopIteration
\* with nothing started, whatever use_props_dialog is.
C13_InvokeOnScreen ==
    /\ called = "invoke" =>
          IF FirstArea(areas, overlay_area_type) = 0
          THEN ret = "StopIteration" /\ pc = "done" /\ NothingStarted
          ELSE IF use_props_dialog
               THEN ret = "PROPS_DIALOG" /\ pc = "dialog" /\ NothingStarted
               ELSE RunStarted /\ Count("invoke_props_dialog") = 0
    /\ pc = "dialog" => NothingStarted
    /\ (called = "execute" /\ Count("invoke_props_dialog") = 1) => RunStarted

C13_Witness ==
    /\ called = "invoke"
    /\ use_props_dialog
    /\ ret = "PROPS_DIALOG"
    /\ pc = "dialog"
    /\ _invoked_from_ui
    /\ _overlay_area = 2

\* C14: from execute on, data_to_empty refers to a list object of its own,
\* and the list object that warmup (or the class attribute) supplied holds
\* the items it held when execute read it, in the same order, however many
\* items the TIMER events have popped.
C14_SuppliedListKept ==
    pc \in {"modal", "done"} /\ Count("warmup") = 1 =>
        /\ data_to_empty = "own"
        /\ lists.src = original
        /\ Len(lists.own) = Len(original) - Count("main_process")

C14_Witness ==
    /\ pc = "done"
    /\ ret = "FINISHED"
    /\ Count("main_process") = 3
    /\ lists.own = <<>>
    /\ lists.src = <<1, 2, 1>>

\* C15: a step in which modal, in a run started through invoke, handles a
\* TIMER event that was not produced by the timer execute registered leaves the queue, the calls made and
\* _progress as they were.
C15_OnlyOwnTimerAdvances ==
    [][(n_timer' # n_timer /\ event'[1].timer # _timer /\ _invoked_from_ui) =>
          UNCHANGED <<lists, calls, _progress>>]_vars

\* The whole seconds of _estimated_time.
WholeSeconds == _estimated_time[1] \div _estimated_time[2]

\* _estimated_time is never negative, and is 0 once a TIMER event has emptied
\* the queue.
EstimateInRange ==
    /\ _estimated_time[2] > 0
    /\ _estimated_time[1] >= 0
    /\ (Handled({"TIMER"}) /\ Queue = <<>>) => _estimated_time[1] = 0

\* A TIMER event leaves in _estimated_time
\* (elapsed time / items processed) * items remaining.
EstimateSet ==
    n_timer' # n_timer =>
        LET processed == _total_items - Len(Queue')
            remaining == Len(Queue')
        IN  _estimated_time'[1] * processed =
                (Time - _start_time) * remaining * _estimated_time'[2]

\* A draw_overlay call draws h:m:s with the whole seconds of _estimated_time
\* in them, the whole percent of _progress, and the bar from 0 to
\* width * _progress, and changes nothing of the operator.
OverlayDrawn ==
    drawn' # drawn =>
        LET o == drawn'[1]
        IN  /\ 0 <= o.m /\ o.m < 60
            /\ 0 <= o.s /\ o.s < 60
            /\ 0 <= o.h
            /\ o.h * 3600 + o.m * 60 + o.s = WholeSeconds
            /\ 0 <= o.percent /\ o.percent <= 100
            /\ o.percent * _progress[2] <= 100 * _progress[1]
            /\ 100 * _progress[1] < (o.percent + 1) * _progress[2]
            /\ o.bar_left = 0
            /\ o.bar_right[1] * _progress[2] =
                   AreaWidth(_overlay_area) * _progress[1] * o.bar_right[2]
            /\ UNCHANGED <<fields, lists, timers, draw_handlers, pc, calls>>

\* C16: every TIMER event sets _estimated_time to (elapsed / processed) *
\* remaining, which is never negative and 0 with the queue empty; draw_overlay
\* shows it as h:m:s with m and s below 60 and h*3600 + m*60 + s its whole
\* seconds, shows the whole percent of _progress (0 to 100), draws the bar
\* from 0 to width * _progress, and changes no operator state.
C16_EstimateAndOverlay ==
    /\ []EstimateInRange
    /\ [][EstimateSet /\ OverlayDrawn]_vars

C16_Witness ==
    /\ drawn # <<>>
    /\ drawn[1].h = 2 /\ drawn[1].m = 3 /\ drawn[1].s = 20
    /\ drawn[1].percent = 33
    /\ _estimated_time = <<7400, 1>>
    /\ _progress = <<1, 3>>
    /\ Len(Queue) = 2

====
